---- MODULE Spec2Model ----
(***************************************************************************)
(* License gate and parameter cascade of app-licenses:                     *)
(*   src/app_hub.py   class AppHub          (cached session object)        *)
(*   src/license.py   class LicenseManager  (stateless variant)            *)
(*                                                                         *)
(* JSON values are tagged records [t, v].  A JSON object is an ordered     *)
(* dict: a sequence of items [k, v] with pairwise different keys, in       *)
(* document order (Python dicts iterate in insertion order).  Strings the  *)
(* code parses (dates, versions) are sequences of one-character strings;   *)
(* strings the code only compares or returns are TLA+ strings.             *)
(***************************************************************************)
EXTENDS Integers, Sequences, FiniteSets, TLC

----------------------------------------------------------------------------
(* Python values *)

None == [t |-> "None"]
JStr(s) == [t |-> "str", v |-> s]
JChars(cs) == [t |-> "chars", v |-> cs]
JNum(n) == [t |-> "num", v |-> n]
JBool(b) == [t |-> "bool", v |-> b]
JDict(items) == [t |-> "dict", v |-> items]
KV(key, val) == [k |-> key, v |-> val]

\* isinstance(x, str) / isinstance(x, dict)
IsStr(x) == x.t \in {"str", "chars"}
IsDict(x) == x.t = "dict"

\* Python truthiness, as used by `if not expires`, `if server`, `if level`.
Truthy(x) ==
    CASE x.t = "None" -> FALSE
      [] x.t = "str" -> x.v # ""
      [] x.t = "chars" -> x.v # << >>
      [] x.t = "num" -> x.v # 0
      [] x.t = "bool" -> x.v
      [] x.t = "dict" -> x.v # << >>
      [] OTHER -> TRUE

\* `key in d`, `d[key]`, `d.get(key, default)`, `d.values()` of a dict value d.
HasKey(d, key) == \E i \in 1..Len(d.v) : d.v[i].k = key
Item(d, key) == d.v[CHOOSE i \in 1..Len(d.v) : d.v[i].k = key].v
DictGet(d, key, default) == IF HasKey(d, key) THEN Item(d, key) ELSE default
Keys(d) == { d.v[i].k : i \in 1..Len(d.v) }

----------------------------------------------------------------------------
(* int(s) and datetime.strptime(s, "%Y-%m-%d") on character sequences *)

ValueError == [ok |-> FALSE]

DigitChars == <<"0", "1", "2", "3", "4", "5", "6", "7", "8", "9">>
IsDigit(c) == \E i \in 1..Len(DigitChars) : DigitChars[i] = c
DigitVal(c) == (CHOOSE i \in 1..Len(DigitChars) : DigitChars[i] = c) - 1
AllDigits(cs) == \A i \in 1..Len(cs) : IsDigit(cs[i])

RECURSIVE DigitsVal(_)
DigitsVal(cs) ==
    IF cs = << >> THEN 0
    ELSE 10 * DigitsVal(SubSeq(cs, 1, Len(cs) - 1)) + DigitVal(cs[Len(cs)])

\* int(s) for a str s: an optional sign, then decimal digits; anything else
\* raises ValueError.  (Surrounding blanks and "_" separators, which int()
\* also accepts, do not occur in the strings enumerated below.)
PyInt(cs) ==
    LET signed == cs # << >> /\ cs[1] \in {"+", "-"}
        body == IF signed THEN Tail(cs) ELSE cs
    IN IF body = << >> \/ ~AllDigits(body) THEN ValueError
       ELSE [ok |-> TRUE,
             n |-> IF signed /\ cs[1] = "-" THEN 0 - DigitsVal(body)
                   ELSE DigitsVal(body)]

\* s.split(sep): the fields of cs between occurrences of the character sep.
RECURSIVE Split(_, _)
Split(cs, sep) ==
    IF \A i \in 1..Len(cs) : cs[i] # sep THEN << cs >>
    ELSE LET p == CHOOSE i \in 1..Len(cs) :
                     cs[i] = sep /\ \A j \in 1..(i - 1) : cs[j] # sep
         IN << SubSeq(cs, 1, p - 1) >> \o Split(SubSeq(cs, p + 1, Len(cs)), sep)

IsLeap(y) == (y % 4 = 0 /\ y % 100 # 0) \/ y % 400 = 0
DaysInMonth(y, m) ==
    IF m = 2 THEN (IF IsLeap(y) THEN 29 ELSE 28)
    ELSE IF m \in {4, 6, 9, 11} THEN 30 ELSE 31

\* datetime.strptime(cs, "%Y-%m-%d"): %Y is exactly four digits, %m is
\* 1[0-2]|0[1-9]|[1-9], %d is 3[01]|[12]\d|0[1-9]|[1-9]| [1-9]; the whole
\* string must be consumed and the date must exist; otherwise ValueError.
\* The result is the datetime at 00:00:00 of that day.
strptime(cs) ==
    LET f == Split(cs, "-") IN
    IF Len(f) # 3 THEN ValueError
    ELSE LET Y == f[1]
             M == f[2]
             D == IF Len(f[3]) = 2 /\ f[3][1] = " " THEN Tail(f[3]) ELSE f[3]
             shapeOk == /\ Len(Y) = 4 /\ AllDigits(Y)
                        /\ Len(M) \in {1, 2} /\ AllDigits(M)
                        /\ Len(D) \in {1, 2} /\ AllDigits(D)
                        /\ Len(D) = Len(f[3]) \/ D[1] # "0"
         IN IF ~shapeOk THEN ValueError
            ELSE LET y == DigitsVal(Y)
                     m == DigitsVal(M)
                     d == DigitsVal(D)
                 IN IF /\ y >= 1
                       /\ m \in 1..12
                       /\ d >= 1
                       /\ d <= DaysInMonth(y, m)
                    THEN [ok |-> TRUE, y |-> y, m |-> m, d |-> d, tod |-> 0]
                    ELSE ValueError

\* a > b for two datetimes: year, month, day, then the time elapsed since
\* 00:00:00 of that day (tod = 0 is midnight exactly).
DatetimeGT(a, b) ==
    \/ a.y > b.y
    \/ a.y = b.y /\ a.m > b.m
    \/ a.y = b.y /\ a.m = b.m /\ a.d > b.d
    \/ a.y = b.y /\ a.m = b.m /\ a.d = b.d /\ a.tod > b.tod

----------------------------------------------------------------------------
(* The session: one AppHub object, the remote repository, the calls made *)

VARIABLES
    current_version,  \* AppHub.current_version, a constructor argument
    _licenses,        \* AppHub._licenses: None or the cached licenses document
    _global_config,   \* AppHub._global_config: None or the cached global.json
    _server_config,   \* AppHub._server_config: None or the cached server document
    _user_name,       \* AppHub._user_name: None or the resolved user name
    _user_data,       \* AppHub._user_data: None or the captured license record
    _server_name,     \* AppHub._server_name: None or the name last requested
    remote,           \* the repository: file name -> document, None if unavailable
    fetches,          \* file name -> number of urlopen requests made for it
    granted,          \* whether a check_license of this object returned a level
    call              \* the last call made: its arguments, inputs and result

vars == << current_version, _licenses, _global_config, _server_config,
           _user_name, _user_data, _server_name, remote, fetches, granted,
           call >>

\* Bounds of the model.
MaxFetch == 2
MaxUsers == 2

\* AppHub.app_name and AppHub.hwid; LicenseManager.app_name and .hwid.
app_name == "joystick"
hwid == "H1"
OtherHwid == "H2"

LicensesFile == "licenses.json"
GlobalFile == "global.json"
ServerFile(server_name) == server_name.v \o ".json"

\* AppHub._fetch_json: the parsed document, or None on any transport, status
\* or parse error.  netOk is whether this request gets through.
_fetch_json(filename, netOk) == IF netOk THEN remote[filename] ELSE None

\* Mutant: the slot keeps a document that fails the structure check.
LoadLicensesKeepsInvalid(lic, netOk) ==
    IF lic # None THEN [ret |-> TRUE, licenses |-> lic, fetched |-> << >>]
    ELSE LET got == _fetch_json(LicensesFile, netOk) IN
         IF got = None
         THEN [ret |-> FALSE, licenses |-> None, fetched |-> << LicensesFile >>]
         ELSE [ret |-> HasKey(got, "users") /\ HasKey(got, "apps"),
               licenses |-> got, fetched |-> << LicensesFile >>]

\* AppHub._load_licenses on cache slot lic: the bool returned, the slot
\* afterwards and the files requested.
_load_licenses(lic, netOk) ==
    IF lic # None THEN [ret |-> TRUE, licenses |-> lic, fetched |-> << >>]
    ELSE LET got == _fetch_json(LicensesFile, netOk) IN
         IF got = None
         THEN [ret |-> FALSE, licenses |-> None, fetched |-> << LicensesFile >>]
         ELSE IF ~HasKey(got, "users") \/ ~HasKey(got, "apps")
         THEN [ret |-> FALSE, licenses |-> None, fetched |-> << LicensesFile >>]
         ELSE [ret |-> TRUE, licenses |-> got, fetched |-> << LicensesFile >>]

\* Mutant: a failed request for global.json leaves an empty document cached.
LoadGlobalCachesFailure(cfg, netOk) ==
    IF cfg # None
    THEN [ret |-> TRUE, config |-> cfg, fetched |-> << >>, log |-> << >>]
    ELSE LET got == _fetch_json(GlobalFile, netOk) IN
         [ret |-> got # None,
          config |-> IF got = None THEN JDict(<< >>) ELSE got,
          fetched |-> << GlobalFile >>,
          log |-> << [role |-> "global", ok |-> netOk] >>]

\* One urlopen request: the loader that made it and whether it got through.
Request(role, netOk) == [role |-> role, ok |-> netOk]

\* AppHub._load_global_config on cache slot cfg; `log` describes the requests
\* of `fetched`, in the same order.
_load_global_config(cfg, netOk) ==
    IF cfg # None
    THEN [ret |-> TRUE, config |-> cfg, fetched |-> << >>, log |-> << >>]
    ELSE LET got == _fetch_json(GlobalFile, netOk) IN
         [ret |-> got # None, config |-> got, fetched |-> << GlobalFile >>,
          log |-> << Request("global", netOk) >>]

\* Mutant: the server document is requested on every call.
LoadServerNoCache(cfg, nm, server_name, netOk) ==
    LET got == _fetch_json(ServerFile(server_name), netOk) IN
    [ret |-> got # None, config |-> got, name |-> server_name,
     fetched |-> << ServerFile(server_name) >>,
     log |-> << Request("server", netOk) >>]

\* Mutant: a cached server document answers for every server name.
LoadServerAnyName(cfg, nm, server_name, netOk) ==
    IF cfg # None
    THEN [ret |-> TRUE, config |-> cfg, name |-> nm, fetched |-> << >>,
          log |-> << >>]
    ELSE LET got == _fetch_json(ServerFile(server_name), netOk) IN
         [ret |-> got # None, config |-> got, name |-> server_name,
          fetched |-> << ServerFile(server_name) >>,
          log |-> << Request("server", netOk) >>]

\* Mutant: a failed request keeps the previous document under the new name.
LoadServerKeepsOldOnFailure(cfg, nm, server_name, netOk) ==
    IF cfg # None /\ nm = server_name
    THEN [ret |-> TRUE, config |-> cfg, name |-> nm, fetched |-> << >>,
          log |-> << >>]
    ELSE LET got == _fetch_json(ServerFile(server_name), netOk) IN
         [ret |-> got # None \/ cfg # None,
          config |-> IF got = None THEN cfg ELSE got, name |-> server_name,
          fetched |-> << ServerFile(server_name) >>,
          log |-> << [role |-> "server", ok |-> netOk] >>]

\* AppHub._load_server_config(server_name) on cache slot cfg, recorded name nm.
_load_server_config(cfg, nm, server_name, netOk) ==
    IF cfg # None /\ nm = server_name
    THEN [ret |-> TRUE, config |-> cfg, name |-> nm, fetched |-> << >>,
          log |-> << >>]
    ELSE LET got == _fetch_json(ServerFile(server_name), netOk) IN
         [ret |-> got # None, config |-> got, name |-> server_name,
          fetched |-> << ServerFile(server_name) >>,
          log |-> << Request("server", netOk) >>]

\* Mutant: the loop keeps going after a match, so the last match wins.
RECURSIVE FindUserLastMatch(_, _)
FindUserLastMatch(users, i) ==
    IF i > Len(users.v) THEN None
    ELSE LET user_info == users.v[i].v
             h == IF IsStr(user_info) THEN user_info
                  ELSE IF IsDict(user_info) THEN DictGet(user_info, "hwid", None)
                  ELSE None
             rest == FindUserLastMatch(users, i + 1)
         IN IF rest # None THEN rest
            ELSE IF h = JStr(hwid) THEN JStr(users.v[i].k) ELSE None

\* The loop of AppHub._find_user over users.items() from item i on: the name
\* of the first item whose hwid equals self.hwid, None when there is none.
RECURSIVE FindUserFrom(_, _)
FindUserFrom(users, i) ==
    IF i > Len(users.v) THEN None
    ELSE LET user_info == users.v[i].v
             h == IF IsStr(user_info) THEN user_info
                  ELSE IF IsDict(user_info) THEN DictGet(user_info, "hwid", None)
                  ELSE None
         IN IF (IsStr(user_info) \/ IsDict(user_info)) /\ h = JStr(hwid)
            THEN JStr(users.v[i].k)
            ELSE FindUserFrom(users, i + 1)

\* AppHub._find_user with the licenses document lic loaded.
_find_user(lic) == FindUserFrom(Item(lic, "users"), 1)

\* int(x) of a version value: a str is parsed, a JSON number is itself.
IntOf(x) == IF x.t = "num" THEN [ok |-> TRUE, n |-> x.v] ELSE PyInt(x.v)

\* What a call leaves behind besides its return value: `reason` names the
\* return statement taken (the message printed before it), `clock` is whether
\* the call read a current-time source.
Outcome(ret, reason, lic, un, ud, fetched, clock) ==
    [ret |-> ret, reason |-> reason, licenses |-> lic, user_name |-> un,
     user_data |-> ud, fetched |-> fetched, clock |-> clock]

\* Mutant: the expiry is evaluated before active.
EvaluateRecordExpiryFirst(ld, user_name, user_data, now) ==
    LET expires == DictGet(user_data, "expires", None)
        expires_dt == IF Truthy(expires) THEN strptime(expires.v) ELSE ValueError
    IN IF expires_dt.ok /\ DatetimeGT(now, expires_dt)
       THEN Outcome(None, "LicenseExpired",
                    ld.licenses, user_name, user_data, ld.fetched, TRUE)
       ELSE IF DictGet(user_data, "active", None) = JBool(TRUE) \/ expires_dt.ok
       THEN Outcome(DictGet(user_data, "level", JStr("TRY")), "Granted",
                    ld.licenses, user_name, user_data, ld.fetched, expires_dt.ok)
       ELSE Outcome(None, "LicenseInactive",
                    ld.licenses, user_name, user_data, ld.fetched, FALSE)

\* Mutant: the expired branch reports and falls through to the grant.
EvaluateRecordExpiredFallsThrough(ld, user_name, user_data, now) ==
    IF DictGet(user_data, "active", None) = JBool(TRUE)
    THEN Outcome(DictGet(user_data, "level", JStr("TRY")), "Granted",
                 ld.licenses, user_name, user_data, ld.fetched, FALSE)
    ELSE LET expires == DictGet(user_data, "expires", None) IN
         IF ~Truthy(expires)
         THEN Outcome(None, "LicenseInactive",
                      ld.licenses, user_name, user_data, ld.fetched, FALSE)
         ELSE LET expires_dt == strptime(expires.v) IN
              IF ~expires_dt.ok
              THEN Outcome(None, "MalformedExpiry",
                           ld.licenses, user_name, user_data, ld.fetched, FALSE)
              ELSE Outcome(DictGet(user_data, "level", JStr("TRY")),
                           IF DatetimeGT(now, expires_dt) THEN "LicenseExpired"
                           ELSE "Granted",
                           ld.licenses, user_name, user_data, ld.fetched, TRUE)

\* AppHub.check_license, from the license record on (lines 244-270).
EvaluateRecord(ld, user_name, user_data, now) ==
    IF DictGet(user_data, "active", None) = JBool(TRUE)
    THEN Outcome(DictGet(user_data, "level", JStr("TRY")), "Granted",
                 ld.licenses, user_name, user_data, ld.fetched, FALSE)
    ELSE LET expires == DictGet(user_data, "expires", None) IN
         IF ~Truthy(expires)
         THEN Outcome(None, "LicenseInactive",
                      ld.licenses, user_name, user_data, ld.fetched, FALSE)
         ELSE LET expires_dt == strptime(expires.v) IN
              IF ~expires_dt.ok
              THEN Outcome(None, "MalformedExpiry",
                           ld.licenses, user_name, user_data, ld.fetched, FALSE)
              ELSE IF DatetimeGT(now, expires_dt)
              THEN Outcome(None, "LicenseExpired",
                           ld.licenses, user_name, user_data, ld.fetched, TRUE)
              ELSE Outcome(DictGet(user_data, "level", JStr("TRY")), "Granted",
                           ld.licenses, user_name, user_data, ld.fetched, TRUE)

\* AppHub.check_license, from the identity lookup on (lines 221-242).  The
\* _load_licenses call inside _find_user finds the slot filled.
ResolveUser(ld, un, ud, now) ==
    LET user_name == _find_user(ld.licenses) IN
    IF user_name = None
    THEN Outcome(None, "IdentityNotFound", ld.licenses, un, ud, ld.fetched, FALSE)
    ELSE LET apps == Item(ld.licenses, "apps") IN
         IF ~HasKey(apps, app_name)
         THEN Outcome(None, "ApplicationUnknown",
                      ld.licenses, user_name, ud, ld.fetched, FALSE)
         ELSE LET app_users == Item(apps, app_name) IN
              IF ~HasKey(app_users, user_name.v)
              THEN Outcome(None, "UserNotEntitled",
                           ld.licenses, user_name, ud, ld.fetched, FALSE)
              ELSE EvaluateRecord(ld, user_name, Item(app_users, user_name.v), now)

\* The version gate of AppHub.check_license (lines 208-219): "pass", or the
\* denial it returns.
VersionGate(lic, version) ==
    LET min_version == DictGet(lic, "min_version", None) IN
    IF min_version = None THEN "pass"
    ELSE LET current == IntOf(version) IN
         IF ~current.ok THEN "MalformedVersion"
         ELSE LET minimum == IntOf(min_version) IN
              IF ~minimum.ok THEN "MalformedVersion"
              ELSE IF current.n < minimum.n THEN "VersionTooOld"
              ELSE "pass"

\* Mutant: the identity is resolved and recorded before the version gate.
CheckLicenseGateAfterLookup(lic, un, ud, version, netOk, now) ==
    LET ld == _load_licenses(lic, netOk) IN
    IF ~ld.ret
    THEN Outcome(None, "DocumentUnavailable", ld.licenses, un, ud, ld.fetched, FALSE)
    ELSE LET gate == VersionGate(ld.licenses, version)
             user_name == _find_user(ld.licenses)
         IN IF gate # "pass"
            THEN Outcome(None, gate, ld.licenses,
                         IF user_name = None THEN un ELSE user_name,
                         ud, ld.fetched, FALSE)
            ELSE ResolveUser(ld, un, ud, now)

\* AppHub.check_license called with the fields (lic, un, ud); netOk is whether
\* a request made by this call gets through, now is what datetime.now() reads.
CheckLicense(lic, un, ud, version, netOk, now) ==
    LET ld == _load_licenses(lic, netOk) IN
    IF ~ld.ret
    THEN Outcome(None, "DocumentUnavailable", ld.licenses, un, ud, ld.fetched, FALSE)
    ELSE LET gate == VersionGate(ld.licenses, version) IN
         IF gate # "pass"
         THEN Outcome(None, gate, ld.licenses, un, ud, ld.fetched, FALSE)
         ELSE ResolveUser(ld, un, ud, now)

\* AppHub.get_server with the fields (lic, un).
GetServer(lic, un) ==
    IF un = None THEN None
    ELSE LET user_info == Item(Item(lic, "users"), un.v)
             server == IF IsDict(user_info)
                       THEN DictGet(user_info, "server", None) ELSE None
         IN IF IsDict(user_info) /\ Truthy(server) THEN server
            ELSE JStr("global")

Found(val) == [found |-> TRUE, val |-> val]
NotFound == [found |-> FALSE]

\* The loop over config.values() of AppHub.get from item i on: the value
\* under param_name in the first item that is a dict and contains it.
RECURSIVE SectionScan(_, _, _)
SectionScan(config, param_name, i) ==
    IF i > Len(config.v) THEN NotFound
    ELSE LET section == config.v[i].v IN
         IF IsDict(section) /\ HasKey(section, param_name)
         THEN Found(Item(section, param_name))
         ELSE SectionScan(config, param_name, i + 1)

\* Mutant: the sections are searched before the top level.
SearchConfigSectionsFirst(config, param_name) ==
    IF SectionScan(config, param_name, 1).found
    THEN SectionScan(config, param_name, 1)
    ELSE IF HasKey(config, param_name) THEN Found(Item(config, param_name))
    ELSE NotFound

\* The search AppHub.get makes in one loaded document (lines 323-329 for the
\* server document, 333-339 for the global one).
SearchConfig(config, param_name) ==
    IF HasKey(config, param_name) THEN Found(Item(config, param_name))
    ELSE SectionScan(config, param_name, 1)

GetOutcome(ret, tier, scfg, sname, gcfg, fetched, log) ==
    [ret |-> ret, tier |-> tier, server_config |-> scfg, server_name |-> sname,
     global_config |-> gcfg, fetched |-> fetched, log |-> log]

\* Step 3 and 4 of AppHub.get (lines 331-343), after the server tier left the
\* server slot as (scfg, sname) and requested the files in `fetched`.
GlobalTier(scfg, sname, gcfg, fetched, log, param_name, fallback, netG) ==
    IF ~fallback THEN GetOutcome(None, "none", scfg, sname, gcfg, fetched, log)
    ELSE LET ld == _load_global_config(gcfg, netG)
             hit == IF ld.ret THEN SearchConfig(ld.config, param_name)
                    ELSE NotFound
         IN IF hit.found
            THEN GetOutcome(hit.val, "global", scfg, sname, ld.config,
                            fetched \o ld.fetched, log \o ld.log)
            ELSE GetOutcome(None, "none", scfg, sname, ld.config,
                            fetched \o ld.fetched, log \o ld.log)

\* Mutant: a global document already cached answers before the server tier.
ServerTierAfterCachedGlobal(lic, un, scfg, sname, gcfg, param_name, fallback, netS, netG) ==
    IF fallback /\ gcfg # None /\ SearchConfig(gcfg, param_name).found
    THEN GetOutcome(SearchConfig(gcfg, param_name).val, "global", scfg, sname,
                    gcfg, << >>, << >>)
    ELSE LET server == GetServer(lic, un) IN
         IF ~Truthy(server)
         THEN GlobalTier(scfg, sname, gcfg, << >>, << >>, param_name, fallback, netG)
         ELSE LET ld == _load_server_config(scfg, sname, server, netS)
                  hit == IF ld.ret THEN SearchConfig(ld.config, param_name)
                         ELSE NotFound
              IN IF hit.found
                 THEN GetOutcome(hit.val, "server", ld.config, ld.name, gcfg,
                                 ld.fetched, ld.log)
                 ELSE GlobalTier(ld.config, ld.name, gcfg, ld.fetched, ld.log,
                                 param_name, fallback, netG)

\* Step 2 of AppHub.get (lines 318-329), then the rest.
ServerTier(lic, un, scfg, sname, gcfg, param_name, fallback, netS, netG) ==
    LET server == GetServer(lic, un) IN
    IF ~Truthy(server)
    THEN GlobalTier(scfg, sname, gcfg, << >>, << >>, param_name, fallback, netG)
    ELSE LET ld == _load_server_config(scfg, sname, server, netS)
             hit == IF ld.ret THEN SearchConfig(ld.config, param_name)
                    ELSE NotFound
         IN IF hit.found
            THEN GetOutcome(hit.val, "server", ld.config, ld.name, gcfg,
                            ld.fetched, ld.log)
            ELSE GlobalTier(ld.config, ld.name, gcfg, ld.fetched, ld.log,
                            param_name, fallback, netG)

\* Mutant: the server tier is searched before the user record.
GetServerBeforeUser(lic, un, ud, scfg, sname, gcfg, param_name, fallback, netS, netG) ==
    LET s == ServerTier(lic, un, scfg, sname, gcfg, param_name, FALSE, netS, netG) IN
    IF s.tier = "server" THEN s
    ELSE IF ud # None /\ HasKey(ud, param_name)
    THEN GetOutcome(Item(ud, param_name), "user", s.server_config, s.server_name,
                    gcfg, s.fetched, s.log)
    ELSE GlobalTier(s.server_config, s.server_name, gcfg, s.fetched, s.log,
                    param_name, fallback, netG)

\* AppHub.get(param_name, fallback) called with the fields given; netS and
\* netG are whether the request for the server document and the one for the
\* global document get through.
Get(lic, un, ud, scfg, sname, gcfg, param_name, fallback, netS, netG) ==
    IF ud # None /\ HasKey(ud, param_name)
    THEN GetOutcome(Item(ud, param_name), "user", scfg, sname, gcfg, << >>, << >>)
    ELSE ServerTier(lic, un, scfg, sname, gcfg, param_name, fallback, netS, netG)

----------------------------------------------------------------------------
(* LicenseManager (src/license.py): no cache, remote time *)

\* f"{n:0{w}d}" for 0 <= n < 10^w.
ZeroPad(n, w) == [i \in 1..w |-> DigitChars[((n \div (10 ^ (w - i))) % 10) + 1]]

\* One pass of the loop of _get_current_date_online: the date a time service's
\* JSON payload yields, None when it has neither key.
DateOfPayload(data) ==
    IF HasKey(data, "datetime")
    THEN JChars(Split(Item(data, "datetime").v, "T")[1])
    ELSE IF HasKey(data, "currentDateTime")
    THEN JChars(Split(Item(data, "currentDateTime").v, "T")[1])
    ELSE None

\* Mutant: the Date header of the license host is asked before the services.
GetDateHeaderFirst(svc1, svc2, header) ==
    LET d1 == IF svc1 = None THEN None ELSE DateOfPayload(svc1)
        d2 == IF svc2 = None THEN None ELSE DateOfPayload(svc2)
    IN IF header # None
       THEN [date |-> JChars(ZeroPad(header.y, 4) \o << "-" >>
                             \o ZeroPad(header.m, 2) \o << "-" >>
                             \o ZeroPad(header.d, 2)),
             sources |-> << "github" >>]
       ELSE IF d1 # None
       THEN [date |-> d1, sources |-> << "github", "worldtimeapi" >>]
       ELSE [date |-> d2,
             sources |-> << "github", "worldtimeapi", "worldclockapi" >>]

\* LicenseManager._get_current_date_online.  svc1 and svc2 are the payloads of
\* the two time services and header the parsed Date header of the license
\* host, each None when that request fails or yields nothing.  Returns the
\* date string (or None) and the sources asked, in order.
_get_current_date_online(svc1, svc2, header) ==
    LET d1 == IF svc1 = None THEN None ELSE DateOfPayload(svc1)
        d2 == IF svc2 = None THEN None ELSE DateOfPayload(svc2)
    IN IF d1 # None THEN [date |-> d1, sources |-> << "worldtimeapi" >>]
       ELSE IF d2 # None
       THEN [date |-> d2, sources |-> << "worldtimeapi", "worldclockapi" >>]
       ELSE [date |-> IF header = None THEN None
                      ELSE JChars(ZeroPad(header.y, 4) \o << "-" >>
                                  \o ZeroPad(header.m, 2) \o << "-" >>
                                  \o ZeroPad(header.d, 2)),
             sources |-> << "worldtimeapi", "worldclockapi", "github" >>]

NoTime == [y |-> 0, m |-> 0, d |-> 0, tod |-> 0]

LMOutcome(ret, reason, sources, now) ==
    [ret |-> ret, reason |-> reason, sources |-> sources, now |-> now]


\* LicenseManager.check_license, from the license record on (lines 224-258).
LMEvaluateRecord(license_info, svc1, svc2, header) ==
    IF DictGet(license_info, "active", None) = JBool(TRUE)
    THEN LMOutcome(DictGet(license_info, "level", JStr("TRY")), "Granted",
                   << >>, NoTime)
    ELSE LET expires == DictGet(license_info, "expires", None) IN
         IF ~Truthy(expires)
         THEN LMOutcome(None, "LicenseInactive", << >>, NoTime)
         ELSE LET t == _get_current_date_online(svc1, svc2, header) IN
              IF t.date = None
              THEN LMOutcome(None, "TimeUnavailable", t.sources, NoTime)
              ELSE LET expires_dt == strptime(expires.v)
                       current_dt == strptime(t.date.v)
                   IN IF ~expires_dt.ok \/ ~current_dt.ok
                      THEN LMOutcome(None, "MalformedExpiry", t.sources, NoTime)
                      ELSE IF DatetimeGT(current_dt, expires_dt)
                      THEN LMOutcome(None, "LicenseExpired", t.sources,
                                     [y |-> current_dt.y, m |-> current_dt.m,
                                      d |-> current_dt.d, tod |-> 0])
                      ELSE LMOutcome(DictGet(license_info, "level", JStr("TRY")),
                                     "Granted", t.sources,
                                     [y |-> current_dt.y, m |-> current_dt.m,
                                      d |-> current_dt.d, tod |-> 0])

\* The loop of LicenseManager.check_license over users.items() from item i on
\* (lines 200-204): the entry itself is compared with self.hwid.
RECURSIVE LMFindUserFrom(_, _)
LMFindUserFrom(users, i) ==
    IF i > Len(users.v) THEN None
    ELSE IF users.v[i].v = JStr(hwid) THEN JStr(users.v[i].k)
    ELSE LMFindUserFrom(users, i + 1)

\* LicenseManager.check_license.  netOk is whether the license request gets
\* through; svc1, svc2, header are what the time sources would answer.
LMCheckLicense(netOk, svc1, svc2, header) ==
    LET licenses_data == _fetch_json(LicensesFile, netOk) IN
    [doc |-> licenses_data] @@
    IF licenses_data = None
    THEN LMOutcome(None, "DocumentUnavailable", << >>, NoTime)
    ELSE IF ~HasKey(licenses_data, "users") \/ ~HasKey(licenses_data, "apps")
    THEN LMOutcome(None, "MalformedDocument", << >>, NoTime)
    ELSE LET users == Item(licenses_data, "users")
             apps == Item(licenses_data, "apps")
             user_name == LMFindUserFrom(users, 1)
         IN IF user_name = None
            THEN LMOutcome(None, "IdentityNotFound", << >>, NoTime)
            ELSE IF ~HasKey(apps, app_name)
            THEN LMOutcome(None, "ApplicationUnknown", << >>, NoTime)
            ELSE IF ~HasKey(Item(apps, app_name), user_name.v)
            THEN LMOutcome(None, "UserNotEntitled", << >>, NoTime)
            ELSE LMEvaluateRecord(Item(Item(apps, app_name), user_name.v),
                                  svc1, svc2, header)

----------------------------------------------------------------------------
(* The documents and inputs enumerated *)

\* Marks a key left out of a generated document.
Absent == [t |-> "absent"]
Opt(key, x) == IF x = Absent THEN << >> ELSE << KV(key, x) >>

D_2025_01_10 == << "2", "0", "2", "5", "-", "0", "1", "-", "1", "0" >>
D_2024_12_31 == << "2", "0", "2", "4", "-", "1", "2", "-", "3", "1" >>
D_2025_02_30 == << "2", "0", "2", "5", "-", "0", "2", "-", "3", "0" >>

\* What datetime.now() may read: 9, 10 or 11 January 2025, at midnight
\* exactly (tod = 0) or later in the day (tod = 1).
Nows == [y : {2025}, m : {1}, d : 9..11, tod : {0, 1}]

\* License records: every combination of active, expires and level.
Actives == {Absent, JBool(TRUE), JBool(FALSE)}
Expiries == {Absent, JChars(<< >>), JChars(D_2025_01_10), JChars(D_2024_12_31),
             JChars(D_2025_02_30)}
Levels == {Absent, JStr("PRO")}
LicenseRecord(active, expires, level) ==
    JDict(Opt("level", level) \o Opt("expires", expires) \o Opt("active", active))
LicenseRecords ==
    { LicenseRecord(a, e, l) : a \in Actives, e \in Expiries, l \in Levels }

\* Entries of `users`: a legacy string for this machine and for another one,
\* a record for this machine, and a record without hwid.
Legacy(h) == JStr(h)
UserRecord(h, server) == JDict(Opt("hwid", h) \o Opt("server", server))
UserInfos == { Legacy(hwid), Legacy(OtherHwid),
               UserRecord(JStr(hwid), JStr("alure")),
               UserRecord(Absent, JStr("alure")) }
UserNames == << "Pavel", "Evgen", "Guest", "Admin" >>

\* Every `users` mapping of at most MaxUsers entries, named in document order.
UsersOf(infos) == JDict([i \in 1..Len(infos) |-> KV(UserNames[i], infos[i])])
AllUsers == UNION { { UsersOf(f) : f \in [1..n -> UserInfos] } : n \in 0..MaxUsers }

PermanentRecord(level) == JDict(<< KV("level", JStr(level)), KV("active", JBool(TRUE)) >>)
AppsWithout == JDict(<< KV("other", JDict(<< >>)) >>)
AppsEmpty == JDict(<< KV(app_name, JDict(<< >>)) >>)
AppsEveryone ==
    JDict(<< KV(app_name, JDict(<< KV("Pavel", PermanentRecord("PRO")),
                                   KV("Evgen", PermanentRecord("DEV")),
                                   KV("Guest", PermanentRecord("TRY")),
                                   KV("Admin", PermanentRecord("ADM")) >>)) >>)
AppsFor(name, record) == JDict(<< KV(app_name, JDict(<< KV(name, record) >>)) >>)

MinVersions == {Absent, JChars(<< "5" >>), JChars(<< "1", "0" >>),
                JChars(<< "1", "x" >>)}
Versions == {JChars(<< "9" >>), JChars(<< "v", "9" >>)}

Licenses(users, apps, min_version) ==
    JDict(Opt("min_version", min_version) \o Opt("users", users) \o Opt("apps", apps))

\* The licenses documents of the decision specification: every users mapping
\* against three apps mappings, and every license record under a legacy and
\* a record entry, each without min_version and with one above the client
\* version; three documents with every min_version; the documents missing a
\* key; and no document at all.
GateVersions == {Absent, JChars(<< "1", "0" >>)}
IdentityDocs ==
    { Licenses(u, a, mv) : u \in AllUsers,
                           a \in {AppsWithout, AppsEmpty, AppsEveryone},
                           mv \in GateVersions }
RecordDocs ==
    { Licenses(u, AppsFor("Pavel", r), mv) :
        u \in { UsersOf(<< Legacy(hwid) >>),
                UsersOf(<< UserRecord(JStr(hwid), JStr("alure")) >>) },
        r \in LicenseRecords, mv \in GateVersions }
VersionDocs ==
    { Licenses(u, a, mv) :
        u \in { UsersOf(<< Legacy(hwid) >>), UsersOf(<< Legacy(OtherHwid) >>) },
        a \in { AppsEveryone,
                AppsFor("Pavel", LicenseRecord(Absent, JChars(D_2025_01_10), Absent)) },
        mv \in MinVersions }
InvalidDocs ==
    { Licenses(u, a, mv) :
        u \in {Absent, UsersOf(<< Legacy(hwid) >>)},
        a \in {Absent, AppsEveryone},
        mv \in GateVersions }
    \ { Licenses(UsersOf(<< Legacy(hwid) >>), AppsEveryone, mv) : mv \in GateVersions }
DecisionDocs ==
    IdentityDocs \cup RecordDocs \cup VersionDocs \cup InvalidDocs \cup {None}


\* Server and global documents: a top-level "delay", a section holding
\* "delay", a section holding "mode" and "delay", in every arrangement of at
\* most two of them.  Values tell the places apart: base + 0..3.
ConfigEntries(base) ==
    { KV("delay", JNum(base)),
      KV("offsets", JDict(<< KV("delay", JNum(base + 1)) >>)),
      KV("patterns", JDict(<< KV("mode", JNum(base + 2)),
                              KV("delay", JNum(base + 3)) >>)) }
ConfigDocs(base) ==
    { JDict(s) : s \in UNION { { f \in [1..n -> ConfigEntries(base)] :
                                   \A i, j \in 1..n : f[i] = f[j] => i = j }
                               : n \in 0..2 } }
ServerDocs == ConfigDocs(10) \cup {None}
GlobalDocs == ConfigDocs(20) \cup {None}
FewServerDocs ==
    { None, JDict(<< KV("patterns", JDict(<< KV("mode", JNum(12)),
                                            KV("delay", JNum(13)) >>)) >>) }
FewGlobalDocs ==
    { None, JDict(<< KV("delay", JNum(20)),
                     KV("patterns", JDict(<< KV("mode", JNum(22)),
                                             KV("delay", JNum(23)) >>)) >>) }
Params == {"delay", "mode"}

\* The licenses documents of the session specification: the local machine as
\* a legacy entry, as a record with a server (after another user's entry),
\* with an empty server, without server, or unknown; the application missing,
\* or holding a permanent record with or without a parameter of its own, or
\* a dated record with one.
SessionUsers ==
    { UsersOf(<< Legacy(hwid) >>),
      UsersOf(<< Legacy(OtherHwid), UserRecord(JStr(hwid), JStr("alure")) >>),
      UsersOf(<< UserRecord(JStr(hwid), JStr("")) >>),
      UsersOf(<< UserRecord(JStr(hwid), Absent) >>),
      UsersOf(<< Legacy(OtherHwid) >>) }
SessionRecords ==
    { PermanentRecord("PRO"),
      JDict(<< KV("level", JStr("PRO")), KV("active", JBool(TRUE)),
               KV("delay", JNum(1)) >>),
      JDict(<< KV("level", JStr("DEV")), KV("expires", JChars(D_2025_01_10)),
               KV("delay", JNum(2)) >>) }
SessionApps ==
    { AppsWithout } \cup
    { JDict(<< KV(app_name, JDict(<< KV("Pavel", r), KV("Evgen", r) >>)) >>) :
        r \in SessionRecords }
SessionDocs == { Licenses(u, a, Absent) : u \in SessionUsers, a \in SessionApps }
CascadeDocs ==
    { Licenses(u, AppsEveryone, Absent) :
        u \in { UsersOf(<< Legacy(hwid) >>),
                UsersOf(<< UserRecord(JStr(hwid), JStr("alure")) >>) } }

\* The files of the repository; Repository puts `server` under every server
\* name, RepositoryOf gives dekan.json a document of its own.
Files == {LicensesFile, GlobalFile, "alure.json", "dekan.json"}
Repository(licenses, server, global) ==
    [f \in Files |-> IF f = LicensesFile THEN licenses
                     ELSE IF f = GlobalFile THEN global ELSE server]
RepositoryOf(licenses, alure, dekan, global) ==
    [Repository(licenses, alure, global) EXCEPT !["dekan.json"] = dekan]
ServerNames == { JStr("alure"), JStr("dekan") }
DekanDocs ==
    { None, JDict(<< KV("delay", JNum(30)), KV("mode", JNum(32)) >>) }

----------------------------------------------------------------------------
(* Initial states and actions *)

\* The last call: op is the method, param and fallback its arguments, now the
\* current time it was given, ret what it returned, reason the return
\* statement of check_license taken, tier the step of get that returned,
\* fetched the files it requested, log the loader and the success of each of
\* these requests, sources the time sources it asked, time what the three
\* time sources had to answer, doc the licenses document it worked on (None
\* when it had none).
NoCall ==
    [op |-> "none", param |-> "", fallback |-> FALSE, now |-> NoTime,
     ret |-> None, reason |-> "", tier |-> "", fetched |-> << >>,
     log |-> << >>, sources |-> << >>, time |-> << >>, doc |-> None]

\* AppHub.__init__ (lines 39-50): every cache field is None.
Constructed ==
    /\ _licenses = None
    /\ _global_config = None
    /\ _server_config = None
    /\ _user_name = None
    /\ _user_data = None
    /\ _server_name = None
    /\ fetches = [f \in Files |-> 0]
    /\ granted = FALSE
    /\ call = NoCall

\* A session: few licenses documents against few repositories, and two
\* granted users against every server and global document.
Init ==
    /\ Constructed
    /\ current_version = JChars(<< "9" >>)
    /\ \/ \E l \in SessionDocs, s \in FewServerDocs, g \in FewGlobalDocs :
              remote = Repository(l, s, g)
       \/ \E l \in CascadeDocs, s \in ServerDocs, g \in FewGlobalDocs :
              remote = Repository(l, s, g)
       \/ \E l \in CascadeDocs, s \in FewServerDocs, g \in GlobalDocs :
              remote = Repository(l, s, g)

\* The license decision: every licenses document and client version.
InitDecision ==
    /\ Constructed
    /\ current_version \in Versions
    /\ \E l \in DecisionDocs : remote = Repository(l, None, None)

\* The server cache: a user of server alure or a legacy user, or a licenses
\* document without apps, against repositories whose server documents differ.
ServerCacheDocs ==
    CascadeDocs \cup { Licenses(UsersOf(<< Legacy(hwid) >>), Absent, Absent) }
InitServerCache ==
    /\ Constructed
    /\ current_version = JChars(<< "9" >>)
    /\ \E l \in ServerCacheDocs, a \in FewServerDocs, d \in DekanDocs,
          g \in FewGlobalDocs \ {None} :
           remote = RepositoryOf(l, a, d, g)

\* The requests in `fetched` stay within the bound on requests per file.
Occurrences(fetched, f) == Cardinality({ i \in 1..Len(fetched) : fetched[i] = f })
CanFetch(fetched) == \A f \in Files : fetches[f] + Occurrences(fetched, f) <= MaxFetch
Fetched(fetched) == [f \in Files |-> fetches[f] + Occurrences(fetched, f)]

\* hub.check_license()
check_license ==
    \E netOk \in BOOLEAN, now \in Nows :
        \E r \in { CheckLicense(_licenses, _user_name, _user_data,
                                 current_version, netOk, now) } :
           /\ CanFetch(r.fetched)
           /\ _licenses' = r.licenses
           /\ _user_name' = r.user_name
           /\ _user_data' = r.user_data
           /\ fetches' = Fetched(r.fetched)
           /\ granted' = (granted \/ r.reason = "Granted")
           /\ call' = [op |-> "check_license", param |-> "", fallback |-> FALSE,
                       now |-> now, ret |-> r.ret, reason |-> r.reason,
                       tier |-> "", fetched |-> r.fetched,
                       log |-> [i \in 1..Len(r.fetched) |->
                                   Request("licenses", netOk)],
                       sources |-> IF r.clock THEN << "local" >> ELSE << >>,
                       time |-> << >>,
                       doc |-> r.licenses]
           /\ UNCHANGED << current_version, _global_config, _server_config,
                           _server_name, remote >>

\* hub.get_server()
get_server ==
    /\ call' = [NoCall EXCEPT !.op = "get_server",
                              !.ret = GetServer(_licenses, _user_name)]
    /\ UNCHANGED << current_version, _licenses, _global_config, _server_config,
                    _user_name, _user_data, _server_name, remote, fetches,
                    granted >>

\* hub.get(param_name, fallback)
get ==
    \E param_name \in Params, fallback \in BOOLEAN, netS \in BOOLEAN, netG \in BOOLEAN :
        \E r \in { Get(_licenses, _user_name, _user_data, _server_config,
                        _server_name, _global_config, param_name, fallback,
                        netS, netG) } :
           /\ CanFetch(r.fetched)
           /\ _server_config' = r.server_config
           /\ _server_name' = r.server_name
           /\ _global_config' = r.global_config
           /\ fetches' = Fetched(r.fetched)
           /\ call' = [NoCall EXCEPT !.op = "get", !.param = param_name,
                                     !.fallback = fallback, !.ret = r.ret,
                                     !.tier = r.tier, !.fetched = r.fetched,
                                     !.log = r.log]
           /\ UNCHANGED << current_version, _licenses, _user_name, _user_data,
                           remote, granted >>

\* hub._load_server_config(server_name), the loader called on its own: the
\* resolved server name never changes while the licenses document is cached,
\* so this is how a session comes to ask for another server's document.
load_server_config ==
    \E server_name \in ServerNames, netOk \in BOOLEAN :
        \E r \in { _load_server_config(_server_config, _server_name,
                                       server_name, netOk) } :
           /\ CanFetch(r.fetched)
           /\ _server_config' = r.config
           /\ _server_name' = r.name
           /\ fetches' = Fetched(r.fetched)
           /\ call' = [NoCall EXCEPT !.op = "_load_server_config",
                                     !.param = server_name.v,
                                     !.ret = JBool(r.ret),
                                     !.fetched = r.fetched, !.log = r.log]
           /\ UNCHANGED << current_version, _licenses, _global_config,
                           _user_name, _user_data, remote, granted >>

\* What the time sources may answer: nothing, or a day of January 2025.
Svc1Answers ==
    {None} \cup { JDict(<< KV("datetime", JChars(ZeroPad(2025, 4) \o << "-", "0", "1", "-" >>
                             \o ZeroPad(d, 2) \o << "T", "1", "2" >>)) >>) : d \in {9, 11} }
Svc2Answers ==
    {None} \cup { JDict(<< KV("currentDateTime",
                             JChars(ZeroPad(2025, 4) \o << "-", "0", "1", "-" >>
                                    \o ZeroPad(d, 2) \o << "T", "0", "0" >>)) >>) : d \in {10} }
HeaderAnswers == {None} \cup [y : {2025}, m : {1}, d : {11}]

\* LicenseManager(app_name).check_license()
LM_check_license ==
    \E netOk \in BOOLEAN, svc1 \in Svc1Answers, svc2 \in Svc2Answers,
       header \in HeaderAnswers :
        \E r \in { LMCheckLicense(netOk, svc1, svc2, header) } :
           /\ call' = [NoCall EXCEPT !.op = "LM.check_license", !.ret = r.ret,
                                     !.reason = r.reason, !.now = r.now,
                                     !.fetched = << LicensesFile >>,
                                     !.sources = r.sources,
                                     !.time = << svc1, svc2, header >>,
                                     !.doc = r.doc]
           /\ UNCHANGED << current_version, _licenses, _global_config,
                           _server_config, _user_name, _user_data, _server_name,
                           remote, fetches, granted >>

Next == check_license \/ get_server \/ get
Spec == Init /\ [][Next]_vars

NextServerCache == check_license \/ get \/ load_server_config
SpecServerCache == InitServerCache /\ [][NextServerCache]_vars

NextDecision == check_license \/ LM_check_license
SpecDecision == InitDecision /\ [][NextDecision]_vars

----------------------------------------------------------------------------
(* Properties.  The conditions below are stated on the documents, not through *)
(* the operators that model the code.                                        *)

\* A users entry carries the local identity: a legacy entry is the identity
\* string itself, a record entry has it as its "hwid".
Carries(user_info) ==
    \/ user_info = JStr(hwid)
    \/ IsDict(user_info) /\ \E i \in 1..Len(user_info.v) :
           user_info.v[i].k = "hwid" /\ user_info.v[i].v = JStr(hwid)

ValidDoc(doc) ==
    /\ doc # None
    /\ \E i \in 1..Len(doc.v) : doc.v[i].k = "users"
    /\ \E i \in 1..Len(doc.v) : doc.v[i].k = "apps"

\* The value under `key` in dict d, where d has the key.
At(d, key) == d.v[CHOOSE i \in 1..Len(d.v) : d.v[i].k = key].v
Has(d, key) == key \in Keys(d)

\* min_version is absent, or both versions are integers and the client's is
\* not below it.
VersionAccepted(doc, version) ==
    \/ ~Has(doc, "min_version")
    \/ /\ PyInt(version.v).ok
       /\ PyInt(At(doc, "min_version").v).ok
       /\ PyInt(version.v).n >= PyInt(At(doc, "min_version").v).n

\* The name of the first users entry, in document order, that carries the
\* local identity.
SomeCarrier(doc) == \E i \in 1..Len(At(doc, "users").v) : Carries(At(doc, "users").v[i].v)
FirstCarrier(doc) ==
    LET users == At(doc, "users").v
        i == CHOOSE n \in 1..Len(users) :
                 Carries(users[n].v) /\ \A j \in 1..(n - 1) : ~Carries(users[j].v)
    IN users[i].k

\* The first carrier is entitled to the application; its license record.
Entitled(doc) ==
    /\ SomeCarrier(doc)
    /\ Has(At(doc, "apps"), app_name)
    /\ Has(At(At(doc, "apps"), app_name), FirstCarrier(doc))
RecordOf(doc) == At(At(At(doc, "apps"), app_name), FirstCarrier(doc))

IsActive(record) == Has(record, "active") /\ At(record, "active") = JBool(TRUE)
LevelOf(record) == IF Has(record, "level") THEN At(record, "level") ELSE JStr("TRY")
WellFormedExpiry(record) ==
    /\ Has(record, "expires")
    /\ At(record, "expires").v # << >>
    /\ strptime(At(record, "expires").v).ok

\* Calendar date a is later than calendar date b (the time of day ignored).
DateLater(a, b) ==
    \/ a.y > b.y
    \/ a.y = b.y /\ a.m > b.m
    \/ a.y = b.y /\ a.m = b.m /\ a.d > b.d
ExpiryOf(record) == strptime(At(record, "expires").v)

HubChecked == call.op = "check_license"

\* C1: AppHub.check_license returns an access level exactly when the document
\* is valid, the version is accepted, the identity is found and entitled, and
\* the record is active or has a well-formed expiry not before the current
\* date; the level is the record's level, "TRY" by default; else it returns
\* None.
C1_ShouldGrant ==
    /\ ValidDoc(call.doc)
    /\ VersionAccepted(call.doc, current_version)
    /\ Entitled(call.doc)
    /\ \/ IsActive(RecordOf(call.doc))
       \/ /\ WellFormedExpiry(RecordOf(call.doc))
          /\ ~DateLater(call.now, ExpiryOf(RecordOf(call.doc)))
C1_DecisionTable ==
    HubChecked =>
        IF C1_ShouldGrant THEN call.ret = LevelOf(RecordOf(call.doc))
        ELSE call.ret = None

\* C2: with min_version present and above the integer client version, the
\* check denies as version-too-old whatever users and apps hold, and no
\* user name or user data is resolved or recorded.
C2_Gated ==
    /\ ValidDoc(call.doc)
    /\ Has(call.doc, "min_version")
    /\ PyInt(current_version.v).ok
    /\ PyInt(At(call.doc, "min_version").v).ok
    /\ PyInt(current_version.v).n < PyInt(At(call.doc, "min_version").v).n
C2_VersionGateFirst ==
    HubChecked /\ C2_Gated =>
        /\ call.ret = None
        /\ call.reason = "VersionTooOld"
        /\ _user_name = None
        /\ _user_data = None
C2_Witness ==
    /\ HubChecked /\ C2_Gated
    /\ Entitled(call.doc) /\ IsActive(RecordOf(call.doc))
    /\ call.reason = "VersionTooOld"

\* C4: with active not true and a well-formed expires, the check denies as
\* expired exactly when the current date is later than the expires date; on
\* the expires date itself, at any time of day, it grants the level.
C4_Dated ==
    /\ ValidDoc(call.doc)
    /\ VersionAccepted(call.doc, current_version)
    /\ Entitled(call.doc)
    /\ ~IsActive(RecordOf(call.doc))
    /\ WellFormedExpiry(RecordOf(call.doc))
C4_ExpiryBoundary ==
    HubChecked /\ C4_Dated =>
        IF DateLater(call.now, ExpiryOf(RecordOf(call.doc)))
        THEN call.ret = None /\ call.reason = "LicenseExpired"
        ELSE call.ret = LevelOf(RecordOf(call.doc))

\* LicenseManager compares a users entry itself with the identity, so it finds
\* the identity in legacy entries.
LMChecked == call.op = "LM.check_license"
LMCarries(user_info) == user_info = JStr(hwid)
LMSomeCarrier(doc) ==
    \E i \in 1..Len(At(doc, "users").v) : LMCarries(At(doc, "users").v[i].v)
LMFirstCarrier(doc) ==
    LET users == At(doc, "users").v
        i == CHOOSE n \in 1..Len(users) :
                 LMCarries(users[n].v) /\ \A j \in 1..(n - 1) : ~LMCarries(users[j].v)
    IN users[i].k
LMEntitled(doc) ==
    /\ LMSomeCarrier(doc)
    /\ Has(At(doc, "apps"), app_name)
    /\ Has(At(At(doc, "apps"), app_name), LMFirstCarrier(doc))
LMRecordOf(doc) == At(At(At(doc, "apps"), app_name), LMFirstCarrier(doc))

\* C3: once the document is valid, the version accepted, the identity found
\* and entitled, a record with active == true is granted its level whatever
\* expires is, and no current-time source is asked; in AppHub and in
\* LicenseManager.
C3_ActiveOverridesExpiry ==
    /\ ( /\ HubChecked
         /\ ValidDoc(call.doc)
         /\ VersionAccepted(call.doc, current_version)
         /\ Entitled(call.doc)
         /\ IsActive(RecordOf(call.doc)) )
       => /\ call.ret = LevelOf(RecordOf(call.doc))
          /\ call.sources = << >>
    /\ ( /\ LMChecked
         /\ ValidDoc(call.doc)
         /\ LMEntitled(call.doc)
         /\ IsActive(LMRecordOf(call.doc)) )
       => /\ call.ret = LevelOf(LMRecordOf(call.doc))
          /\ call.sources = << >>
\* LicenseManager grants an active record whose expires is a past date, in a
\* session where AppHub has captured the same record.
C3_Witness ==
    /\ LMChecked
    /\ ValidDoc(call.doc)
    /\ LMEntitled(call.doc)
    /\ IsActive(LMRecordOf(call.doc))
    /\ Has(LMRecordOf(call.doc), "expires")
    /\ At(LMRecordOf(call.doc), "expires") = JChars(D_2024_12_31)
    /\ call.ret = JStr("PRO")
    /\ _user_data = LMRecordOf(call.doc)

\* C5: a licenses document lacking users or apps is treated like a failed
\* fetch: every check denies, nothing is cached or recorded, and every call
\* requests the document again.
C5_Invalid == remote[LicensesFile] # None /\ ~ValidDoc(remote[LicensesFile])
C5_InvalidLikeFailedFetch ==
    C5_Invalid =>
        /\ _licenses = None
        /\ _user_name = None
        /\ _user_data = None
        /\ HubChecked => /\ call.ret = None
                         /\ call.reason = "DocumentUnavailable"
                         /\ call.fetched = << LicensesFile >>
        /\ LMChecked => call.ret = None
C5_Witness ==
    /\ C5_Invalid
    /\ Has(remote[LicensesFile], "users")
    /\ HubChecked
    /\ fetches[LicensesFile] = 2

\* C6: the identity lookup resolves the first users entry, in document
\* order, that carries the local identity, legacy and record entries alike;
\* with no such entry the identity is not found.
C6_FirstCarrierResolved ==
    ( /\ HubChecked
      /\ ValidDoc(call.doc)
      /\ VersionAccepted(call.doc, current_version) )
    => IF SomeCarrier(call.doc)
       THEN /\ _user_name = JStr(FirstCarrier(call.doc))
            /\ call.reason # "IdentityNotFound"
       ELSE /\ _user_name = None
            /\ call.reason = "IdentityNotFound"
            /\ call.ret = None
\* Two entries carry the identity, a record first and a legacy one second.
C6_Witness ==
    /\ HubChecked
    /\ ValidDoc(call.doc)
    /\ Len(At(call.doc, "users").v) = 2
    /\ IsDict(At(call.doc, "users").v[1].v)
    /\ Carries(At(call.doc, "users").v[1].v)
    /\ At(call.doc, "users").v[2].v = JStr(hwid)
    /\ _user_name = JStr(At(call.doc, "users").v[1].k)

\* C7 as claimed: a denial is told apart from a denial for another reason by
\* what check_license returns: whatever the next call can deny with for
\* another reason, it returns something else.
C7_ReasonsDistinguishable ==
    HubChecked /\ call.reason # "Granted" =>
        \A netOk \in BOOLEAN, now \in Nows :
            LET next == CheckLicense(_licenses, _user_name, _user_data,
                                     current_version, netOk, now)
            IN next.reason \notin {"Granted", call.reason} => next.ret # call.ret
\* C7 as amended: every denial returns None, whatever the reason.
C7_DenialsReturnNone ==
    (HubChecked \/ LMChecked) /\ call.reason # "Granted" => call.ret = None
C7_Witness ==
    /\ HubChecked
    /\ call.reason = "LicenseExpired"
    /\ call.ret = None
    /\ fetches[LicensesFile] = 2


\* A document holds the parameter at top level or in a nested mapping; the
\* values it holds for it; the value the in-tier rule selects: the top-level
\* one, else that of the first nested mapping, in document order, holding it.
Sections(doc, p) == { i \in 1..Len(doc.v) : IsDict(doc.v[i].v) /\ Has(doc.v[i].v, p) }
Holds(doc, p) == Has(doc, p) \/ Sections(doc, p) # {}
ValuesIn(doc, p) ==
    { doc.v[i].v : i \in { j \in 1..Len(doc.v) : doc.v[j].k = p } }
    \cup { At(doc.v[i].v, p) : i \in Sections(doc, p) }
TierAnswer(doc, p) ==
    IF Has(doc, p) THEN At(doc, p)
    ELSE At(doc.v[CHOOSE i \in Sections(doc, p) :
                      \A j \in Sections(doc, p) : i <= j].v, p)

\* After a get: the tiers that were consulted and hold the parameter.
Got == call.op = "get"
UserHit == _user_data # None /\ Has(_user_data, call.param)
ServerHit ==
    _user_name # None /\ _server_config # None /\ Holds(_server_config, call.param)
GlobalHit ==
    call.fallback /\ _global_config # None /\ Holds(_global_config, call.param)

\* C8: get returns the parameter from the highest-priority consulted tier
\* that holds it: user record, then server document, then global document.
C8_CascadePriority ==
    Got => IF UserHit THEN call.ret = At(_user_data, call.param)
           ELSE IF ServerHit THEN call.ret \in ValuesIn(_server_config, call.param)
           ELSE IF GlobalHit THEN call.ret \in ValuesIn(_global_config, call.param)
           ELSE call.ret = None
\* The user record's value is returned while the loaded server and global
\* documents both hold other values for the parameter.
C8_Witness ==
    /\ Got /\ UserHit /\ ServerHit /\ GlobalHit
    /\ _server_name = JStr("alure")
    /\ call.ret = At(_user_data, call.param)
    /\ call.ret \notin ValuesIn(_server_config, call.param)
    /\ call.ret \notin ValuesIn(_global_config, call.param)

\* C9: within the server tier and within the global tier, the top-level key
\* is preferred to any nested section wherever it stands; without it the
\* first nested mapping holding the name, in document order, decides.
C9_TopLevelBeforeSections ==
    Got /\ ~UserHit =>
        /\ ServerHit => call.ret = TierAnswer(_server_config, call.param)
        /\ ~ServerHit /\ GlobalHit => call.ret = TierAnswer(_global_config, call.param)
\* A section holding the parameter precedes the top-level key in the server
\* document, and the top-level value is returned.
C9_Witness ==
    /\ Got /\ ~UserHit /\ ServerHit
    /\ Has(_server_config, call.param)
    /\ 1 \in Sections(_server_config, call.param)
    /\ call.ret = At(_server_config, call.param)
    /\ call.ret # At(_server_config.v[1].v, call.param)

\* C10: get(param, fallback=False) never requests global.json and returns
\* nothing taken from it; with the user and server tiers missing it returns
\* not-found.
C10_NoGlobalWithoutFallback ==
    Got /\ ~call.fallback =>
        /\ \A i \in 1..Len(call.fetched) : call.fetched[i] # GlobalFile
        /\ \/ call.ret = None
           \/ UserHit
           \/ remote[GlobalFile] = None
           \/ call.ret \notin ValuesIn(remote[GlobalFile], call.param)


\* A get call c of the current session reaches the server tier: a user is
\* resolved and the captured record does not hold the parameter.  (get leaves
\* the user fields alone, so this reads the same before and after the call.)
ReachesServer(c) ==
    /\ c.op = "get"
    /\ _user_name # None
    /\ ~(_user_data # None /\ Has(_user_data, c.param))
\* The requests call c made through the loader `role`, and those that brought
\* a document back.
RequestsOf(c, role) == { i \in 1..Len(c.log) : c.log[i].role = role }
LoadedBy(c, role) ==
    { i \in RequestsOf(c, role) : c.log[i].ok /\ remote[c.fetched[i]] # None }

\* C11 (as stated): of two sequential get calls that both reach the server
\* tier, the second requests no server document and the two together request
\* it at most once.
C11_OneFetchForTwoCalls ==
    [][ReachesServer(call) /\ ReachesServer(call') =>
            /\ RequestsOf(call', "server") = {}
            /\ Cardinality(RequestsOf(call, "server")) <= 1]_vars
\* C11 (amended): when the first of two sequential get calls reaching the
\* server tier leaves the server document loaded, the second requests none
\* and answers from the cached one; the first requested it at most once.
C11_SecondServedFromCache ==
    [][ReachesServer(call) /\ ReachesServer(call') /\ _server_config # None =>
            /\ RequestsOf(call', "server") = {}
            /\ Cardinality(RequestsOf(call, "server")) <= 1
            /\ _server_config' = _server_config
            /\ Holds(_server_config, call'.param) =>
                   call'.ret = TierAnswer(_server_config, call'.param)]_vars
\* alure.json has been requested once in the session and the last get was
\* answered from the server tier without a request.
C11_Witness ==
    /\ ReachesServer(call)
    /\ _server_name = JStr("alure")
    /\ fetches["alure.json"] = 1
    /\ call.fetched = << >>
    /\ call.tier = "server"


\* The server name a step asks the server loader for, None when it asks for
\* none: the argument of a direct call, the resolved server name of a get
\* that reaches the server tier.
AskedServer ==
    IF call'.op = "_load_server_config" THEN JStr(call'.param)
    ELSE IF ReachesServer(call') THEN GetServer(_licenses, _user_name)
    ELSE None

\* C12: a request for a server name other than the recorded one issues a
\* fresh fetch of that name's document, records the new name, leaves in the
\* slot what that fetch returned (never the previous document), and a get is
\* answered from the new document only; so after a switch from A to B a
\* request for A fetches A again.
C12_SwitchFetchesFresh ==
    [][AskedServer # None /\ AskedServer # _server_name =>
            /\ call'.fetched # << >>
            /\ call'.fetched[1] = ServerFile(AskedServer)
            /\ RequestsOf(call', "server") = {1}
            /\ _server_name' = AskedServer
            /\ _server_config' = IF call'.log[1].ok
                                 THEN remote[ServerFile(AskedServer)] ELSE None
            /\ call'.tier = "server" =>
                   /\ remote[ServerFile(AskedServer)] # None
                   /\ call'.ret = TierAnswer(remote[ServerFile(AskedServer)],
                                             call'.param)]_vars
\* alure.json is fetched a second time, after dekan.json was requested in
\* between, and the repository holds different documents for the two.
C12_Witness ==
    /\ fetches["alure.json"] = 2
    /\ fetches["dekan.json"] = 1
    /\ remote["alure.json"] # None
    /\ remote["dekan.json"] # None
    /\ call.fetched = << "alure.json" >>
    /\ _server_name = JStr("alure")
    /\ _server_config = remote["alure.json"]


\* Request i of call c brought no usable document: it did not get through,
\* the file is unavailable, or it is a licenses document failing the
\* structure check.
FailedRequest(c, i) ==
    \/ ~c.log[i].ok
    \/ remote[c.fetched[i]] = None
    \/ c.log[i].role = "licenses" /\ ~ValidDoc(remote[c.fetched[i]])
\* A get call c reaches the global tier from the slots (scfg) its server tier
\* left: fallback is asked, the user record lacks the parameter and no loaded
\* server document holds it.
ReachesGlobal(c, scfg) ==
    /\ c.op = "get" /\ c.fallback
    /\ ~(_user_data # None /\ Has(_user_data, c.param))
    /\ ~(_user_name # None /\ scfg # None /\ Holds(scfg, c.param))

\* C13: a request that fails leaves its cache slot empty; a step that needs a
\* document whose slot is empty requests it, and when that request brings a
\* document the slot holds it and the step works from it.
C13_FailedFetchNotCached ==
    [][/\ \A i \in 1..Len(call'.log) :
              FailedRequest(call', i) =>
                  /\ call'.log[i].role = "licenses" => _licenses' = None
                  /\ call'.log[i].role = "server" => _server_config' = None
                  /\ call'.log[i].role = "global" => _global_config' = None
       /\ call'.op = "check_license" /\ _licenses = None =>
              /\ call'.fetched = << LicensesFile >>
              /\ ~FailedRequest(call', 1) =>
                     /\ _licenses' = remote[LicensesFile]
                     /\ call'.doc = remote[LicensesFile]
                     /\ call'.reason # "DocumentUnavailable"
       /\ AskedServer # None /\ _server_config = None =>
              /\ RequestsOf(call', "server") = {1}
              /\ call'.fetched[1] = ServerFile(AskedServer)
              /\ ~FailedRequest(call', 1) =>
                     /\ _server_config' = remote[ServerFile(AskedServer)]
                     /\ call'.op = "get" /\ Holds(_server_config', call'.param) =>
                            call'.ret = TierAnswer(_server_config', call'.param)
       /\ ReachesGlobal(call', _server_config') /\ _global_config = None =>
              /\ RequestsOf(call', "global") = {Len(call'.log)}
              /\ call'.fetched[Len(call'.fetched)] = GlobalFile
              /\ ~FailedRequest(call', Len(call'.log)) =>
                     /\ _global_config' = remote[GlobalFile]
                     /\ Holds(_global_config', call'.param) =>
                            call'.ret = TierAnswer(_global_config', call'.param)
      ]_vars
\* licenses.json and alure.json were each requested twice, so each failed
\* once; both are now cached and the last get was answered from alure.json,
\* fetched by this very call.
C13_Witness ==
    /\ fetches[LicensesFile] = 2 /\ _licenses # None
    /\ fetches["alure.json"] = 2 /\ fetches["dekan.json"] = 0
    /\ _server_name = JStr("alure") /\ _server_config # None
    /\ call.op = "get" /\ call.tier = "server"
    /\ call.fetched = << "alure.json" >>


\* C14: over any sequence of check_license, get_server and get calls,
\* licenses.json is requested at most once and global.json at most once.
C14_FetchedAtMostOnce ==
    /\ fetches[LicensesFile] <= 1
    /\ fetches[GlobalFile] <= 1


\* C15: while no check_license of the session has granted, get_server
\* returns None.
C15_ServerOnlyAfterGrant ==
    call.op = "get_server" /\ ~granted => call.ret = None

\* C16: the session holds a user name or a captured record only if a
\* check_license has granted; a check_license that denies retains neither,
\* and no get is answered from the record of a denied license.
C16_ContextOnlyAfterGrant ==
    /\ _user_name # None \/ _user_data # None => granted
    /\ call.op = "check_license" /\ call.reason # "Granted" =>
           _user_name = None /\ _user_data = None
    /\ Got /\ call.tier = "user" => granted

\* C17: get returns a parameter value, from whichever tier, only if a
\* check_license of the session has granted before; otherwise it returns
\* not-found.
C17_ParametersOnlyAfterGrant ==
    Got /\ ~granted => call.ret = None


\* C18: for a resolved user without a server (legacy entry, record with
\* absent or empty 'server') get_server returns "global", and get requests
\* no server document and answers nothing from the server tier: global.json
\* is requested through the global loader only.
C18_NoServerDocumentForGlobal ==
    /\ call.op = "get_server" /\ _user_name # None =>
           LET user_info == At(At(_licenses, "users"), _user_name.v) IN
           (~IsDict(user_info) \/ ~Has(user_info, "server")
                \/ At(user_info, "server") = JStr("")) => call.ret = JStr("global")
    /\ Got /\ _user_name # None /\ GetServer(_licenses, _user_name) = JStr("global") =>
           /\ RequestsOf(call, "server") = {}
           /\ call.tier # "server"


\* What the repository and the arguments alone determine for a get of the
\* licensed user: the record's value, else the in-tier answer of the document
\* of the user's server name, else with fallback that of global.json, else
\* None.
ServerFileOf(doc) ==
    LET user_info == At(At(doc, "users"), FirstCarrier(doc)) IN
    IF IsDict(user_info) /\ Has(user_info, "server")
                         /\ Truthy(At(user_info, "server"))
    THEN ServerFile(At(user_info, "server")) ELSE "global.json"
Expected(p, fallback) ==
    LET doc == remote[LicensesFile]
        sdoc == remote[ServerFileOf(doc)]
        gdoc == remote[GlobalFile]
    IN IF Has(RecordOf(doc), p) THEN At(RecordOf(doc), p)
       ELSE IF sdoc # None /\ Holds(sdoc, p) THEN TierAnswer(sdoc, p)
       ELSE IF fallback /\ gdoc # None /\ Holds(gdoc, p) THEN TierAnswer(gdoc, p)
       ELSE None

\* C19 (as stated, for two calls in a row): after a granted check_license,
\* two get calls with the same arguments return the same result, whether or
\* not requests fail.
C19_SameArgumentsSameResult ==
    [][/\ granted /\ call.op = "get" /\ call'.op = "get"
       /\ call'.param = call.param /\ call'.fallback = call.fallback
       => call'.ret = call.ret]_vars
\* C19 (amended): after a granted check_license, every get during which no
\* request fails returns the value the unchanged repository and the
\* arguments determine; any two such calls with the same arguments therefore
\* agree, whatever calls, failed or not, were made before or between them.
C19_DeterminedWithoutFailure ==
    granted /\ Got /\ (\A i \in 1..Len(call.log) : call.log[i].ok) =>
        call.ret = Expected(call.param, call.fallback)
\* A get answered by the document it fetched itself, on the second request
\* for alure.json of the session: an earlier get met a failed request.
C19_Witness ==
    /\ granted /\ Got
    /\ fetches["alure.json"] = 2
    /\ call.fetched = << "alure.json" >> /\ call.log[1].ok
    /\ call.ret # None
    /\ call.ret = Expected(call.param, call.fallback)


\* C20: a document in the server slot is the one the repository holds under
\* the recorded server name; a failed request for a server document leaves
\* the slot empty; and a get answered from the server tier is answered from
\* the document of the server name resolved for that call.
C20_ServerCacheCoherent ==
    /\ _server_config # None =>
           /\ _server_name # None
           /\ _server_config = remote[ServerFile(_server_name)]
    /\ RequestsOf(call, "server") # {} /\ FailedRequest(call, 1) =>
           _server_config = None
    /\ Got /\ call.tier = "server" =>
           LET resolved == GetServer(_licenses, _user_name) IN
           /\ _server_name = resolved
           /\ remote[ServerFile(resolved)] # None
           /\ Holds(remote[ServerFile(resolved)], call.param)
           /\ call.ret = TierAnswer(remote[ServerFile(resolved)], call.param)
\* A get of a user of server alure fetches alure.json and is answered from it
\* in a session that requested dekan.json, which holds another value for the
\* parameter, before.
C20_Witness ==
    /\ Got /\ call.tier = "server"
    /\ call.fetched = << "alure.json" >>
    /\ fetches["alure.json"] = 2
    /\ fetches["dekan.json"] = 1
    /\ remote["dekan.json"] # None
    /\ Holds(remote["dekan.json"], call.param)
    /\ call.ret \notin ValuesIn(remote["dekan.json"], call.param)


\* The calendar date a time source of the last LicenseManager check had to
\* give, as [ok, y, m, d]: the ten characters before the T of a service's
\* datetime or currentDateTime, the day of the Date header; ok is FALSE when
\* the source gave nothing.
SourceDateOf(time, i) ==
    LET answer == time[i] IN
    IF answer = None THEN [ok |-> FALSE]
    ELSE IF i = 3 THEN [ok |-> TRUE, y |-> answer.y, m |-> answer.m, d |-> answer.d]
    ELSE IF Has(answer, "datetime")
    THEN strptime(SubSeq(At(answer, "datetime").v, 1, 10))
    ELSE IF Has(answer, "currentDateTime")
    THEN strptime(SubSeq(At(answer, "currentDateTime").v, 1, 10))
    ELSE [ok |-> FALSE]
SourceDate(i) == SourceDateOf(call.time, i)
NoTimeObtainable == \A i \in 1..3 : ~SourceDate(i).ok
FirstSourceOf(time) ==
    CHOOSE i \in 1..3 : /\ SourceDateOf(time, i).ok
                        /\ \A j \in 1..(i - 1) : ~SourceDateOf(time, j).ok
FirstSource == FirstSourceOf(call.time)
SourceOrder == << "worldtimeapi", "worldclockapi", "github" >>
\* The last LicenseManager check reached the license record of the local
\* identity; the record needs a date: it is not active and names an expiry.
LMReachedRecord == LMChecked /\ ValidDoc(call.doc) /\ LMEntitled(call.doc)
LMNeedsDate ==
    /\ LMReachedRecord
    /\ ~IsActive(LMRecordOf(call.doc))
    /\ Has(LMRecordOf(call.doc), "expires")
    /\ At(LMRecordOf(call.doc), "expires").v # << >>

\* C21 (as stated): when no time source gives a date, LicenseManager denies,
\* whatever the license record contains.
C21_FailClosedAlways ==
    LMChecked /\ NoTimeObtainable => call.ret = None
\* C21 (amended): for a record that needs a date, LicenseManager denies when
\* no source gives one, after asking all three; otherwise it asks the sources
\* in the order first service, second service, Date header up to the first
\* that gives a date, and compares that date with expires.  A record with
\* active == true is granted without a source being asked.
C21_FailClosedWhenDated ==
    /\ LMNeedsDate /\ NoTimeObtainable =>
           /\ call.ret = None
           /\ call.reason = "TimeUnavailable"
           /\ call.sources = SourceOrder
    /\ LMNeedsDate /\ ~NoTimeObtainable =>
           /\ call.sources = SubSeq(SourceOrder, 1, FirstSource)
           /\ IF ~WellFormedExpiry(LMRecordOf(call.doc)) THEN call.ret = None
              ELSE IF DateLater(SourceDate(FirstSource), ExpiryOf(LMRecordOf(call.doc)))
              THEN call.ret = None /\ call.reason = "LicenseExpired"
              ELSE call.ret = LevelOf(LMRecordOf(call.doc))
    /\ LMReachedRecord /\ IsActive(LMRecordOf(call.doc)) =>
           /\ call.sources = << >>
           /\ call.ret = LevelOf(LMRecordOf(call.doc))
\* The first service fails, the second gives the expiry date itself and the
\* Date header a later day: the license is granted on the second service's
\* date.
C21_Witness ==
    /\ LMNeedsDate
    /\ WellFormedExpiry(LMRecordOf(call.doc))
    /\ ~SourceDate(1).ok /\ SourceDate(2).ok /\ SourceDate(3).ok
    /\ ~DateLater(SourceDate(2), ExpiryOf(LMRecordOf(call.doc)))
    /\ DateLater(SourceDate(3), ExpiryOf(LMRecordOf(call.doc)))
    /\ call.sources = << "worldtimeapi", "worldclockapi" >>
    /\ call.ret = LevelOf(LMRecordOf(call.doc))


\* C22: on the same licenses document without min_version and the same
\* current date, a time source answering, LicenseManager.check_license
\* returns what AppHub.check_license returned just before: both deny or both
\* grant the same level, for legacy and for record entries of users.
C22_SameDecision ==
    [][/\ HubChecked /\ LMChecked'
       /\ call.doc # None /\ call'.doc = call.doc
       /\ ~Has(call.doc, "min_version")
       /\ \E i \in 1..3 : SourceDateOf(call'.time, i).ok
       /\ LET today == SourceDateOf(call'.time, FirstSourceOf(call'.time)) IN
          today.y = call.now.y /\ today.m = call.now.m /\ today.d = call.now.d
       => call'.ret = call.ret]_vars

====
